---- MODULE Spec2Model ----
(***************************************************************************)
(* socketio-rust-emitter (src/lib.rs): the Emitter builder, the channel    *)
(* it publishes on and the MessagePack envelope it publishes.              *)
(*                                                                         *)
(* A Rust String is modelled as the sequence of its UTF-8 bytes, so that   *)
(* format!/join are concatenations and the envelope is a byte sequence.    *)
(***************************************************************************)
EXTENDS Integers, Sequences, FiniteSets, TLC

(* ------------------------------ bounds --------------------------------- *)

\* to() is not offered once this many rooms are pending.
MaxRooms == 2

\* emit() is not offered once the broker has accepted this many messages.
MaxPublishes == 2

(* ------------------------- string literals ----------------------------- *)

\* "socket.io"
DefaultPrefix == <<115, 111, 99, 107, 101, 116, 46, 105, 111>>
\* "/"
DefaultNsp == <<47>>
\* "emitter"
Uid == <<101, 109, 105, 116, 116, 101, 114>>
\* "#"
Hash == <<35>>
\* "json", "volatile", "broadcast"
JsonKey == <<106, 115, 111, 110>>
VolatileKey == <<118, 111, 108, 97, 116, 105, 108, 101>>
BroadcastKey == <<98, 114, 111, 97, 100, 99, 97, 115, 116>>
\* serde field names: "type" (renamed from _type), "data", "nsp", "rooms", "flags"
TypeKey == <<116, 121, 112, 101>>
DataKey == <<100, 97, 116, 97>>
NspKey == <<110, 115, 112>>
RoomsKey == <<114, 111, 111, 109, 115>>
FlagsKey == <<102, 108, 97, 103, 115>>

(* ------------------------------ inputs --------------------------------- *)

\* "/custom"
CustomNsp == <<47, 99, 117, 115, 116, 111, 109>>
\* "room1", "r2"
Room1 == <<114, 111, 111, 109, 49>>
Room2 == <<114, 50>>
\* "test", "test1", "test2"
Test == <<116, 101, 115, 116>>
Test1 == <<116, 101, 115, 116, 49>>
Test2 == <<116, 101, 115, 116, 50>>
\* "k"
CustomKey == <<107>>
\* ""
EmptyStr == <<>>

\* Option<&str>
None == [some |-> FALSE]
Some(v) == [some |-> TRUE, val |-> v]

\* What Emitter::new is given: a redis::Client, a "host:port" &str, or an
\* EmitterOpts whose key is None or Some(key).
NewInputs ==
  {[kind |-> "client", key |-> None], [kind |-> "str", key |-> None]}
    \cup {[kind |-> "opts", key |-> k] : k \in {None, Some(CustomKey), Some(EmptyStr)}}

RoomInputs == {Room1, Room2}
NspInputs == {DefaultNsp, CustomNsp}
MessageInputs == {<<>>, <<Test>>, <<Test1, Test2>>}

(* ------------------------------- state --------------------------------- *)

VARIABLES
  io,        \* the Emitter value the caller owns, or Dropped
  published, \* the publish commands the last call sent to redis: [channel, msg, ok]
  accepted,  \* how many messages the broker has accepted so far
  outcome,   \* how the last call ended: "returned" or "panicked"
  lastOp,    \* the method called last
  pre,       \* the Emitter that call was made on (self on entry)
  message,   \* the argument of the last emit (empty before the first)
  newPrefix, \* the prefix the caller constructed the Emitter with
  bound,     \* the namespace the caller bound last: "/" by new, nsp by of(nsp)
  given,     \* the rooms given to to(), in call order, since the last new, of or emit
  flagged    \* the flag method called last since the last new, of or emit, or "none"

vars == <<io, published, accepted, outcome, lastOp, pre, message, newPrefix, bound, given, flagged>>

\* self after emit panicked: it was moved into emit and dropped by the unwind.
Dropped == [dropped |-> TRUE]

\* pre before any call
NoEmitter == [constructed |-> FALSE]

(* ------------------------------ Emitter -------------------------------- *)

\* mutant: the cached channel lacks its closing "#"
create_emitter_open(redis, prefix, nsp) ==
  [redis |-> redis, prefix |-> prefix, nsp |-> nsp,
   channel |-> prefix \o Hash \o nsp,
   rooms |-> <<>>, flags |-> {}, uid |-> Uid]

create_emitter(redis, prefix, nsp) ==
  [redis |-> redis,
   prefix |-> prefix,
   nsp |-> nsp,
   channel |-> prefix \o Hash \o nsp \o Hash,
   rooms |-> <<>>,
   flags |-> {},
   uid |-> Uid]

into_emitter(data) ==
  CASE data.kind = "client" -> create_emitter("redis", DefaultPrefix, DefaultNsp)
    [] data.kind = "str" -> create_emitter("redis", DefaultPrefix, DefaultNsp)
    [] data.kind = "opts" ->
         create_emitter("redis",
                        IF data.key.some THEN data.key.val ELSE DefaultPrefix,
                        DefaultNsp)

\* mutant: a room already pending is not pushed again
emitter_to_dedup(self, room) ==
  IF \E i \in DOMAIN self.rooms : self.rooms[i] = room
    THEN self
    ELSE [self EXCEPT !.rooms = Append(@, room)]

\* mutant: to starts from a fresh flag map
emitter_to_fresh_flags(self, room) ==
  [self EXCEPT !.rooms = Append(@, room), !.flags = {}]

\* self.rooms.push(room)
emitter_to(self, room) == [self EXCEPT !.rooms = Append(@, room)]

\* mutant: of rebinds the namespace in place, keeping rooms and flags
emitter_of_in_place(self, nsp) ==
  [self EXCEPT !.nsp = nsp, !.channel = self.prefix \o Hash \o nsp \o Hash]

\* mutant: of builds the new Emitter with the default prefix
emitter_of_default_prefix(self, nsp) == create_emitter(self.redis, DefaultPrefix, nsp)

\* mutant: of keeps the receiver's cached channel
emitter_of_stale_channel(self, nsp) ==
  [create_emitter(self.redis, self.prefix, nsp) EXCEPT !.channel = self.channel]

\* create_emitter(self.redis, self.prefix, nsp)
emitter_of(self, nsp) == create_emitter(self.redis, self.prefix, nsp)

\* mutant: the entry is inserted into the flags already set
set_flag_insert(self, key) == [self EXCEPT !.flags = @ \cup {<<key, TRUE>>}]

\* a fresh HashMap holding the one entry key -> true replaces self.flags
set_flag(self, key) == [self EXCEPT !.flags = {<<key, TRUE>>}]

emitter_json(self) == set_flag(self, JsonKey)
emitter_volatile(self) == set_flag(self, VolatileKey)
emitter_broadcast(self) == set_flag(self, BroadcastKey)

\* Packet { _type: 2, data: message, nsp: self.nsp }
make_packet(self, msg) == [type |-> 2, data |-> msg, nsp |-> self.nsp]

\* mutant: the options are taken after the reset
make_opts_after_reset(self) == [rooms |-> <<>>, flags |-> {}]

\* Opts { rooms: self.rooms.clone(), flags: self.flags.clone() }
make_opts(self) == [rooms |-> self.rooms, flags |-> self.flags]

RECURSIVE join(_, _)
\* rooms.join(sep)
join(rooms, sep) ==
  IF rooms = <<>> THEN <<>>
  ELSE IF Len(rooms) = 1 THEN rooms[1]
  ELSE rooms[1] \o sep \o join(Tail(rooms), sep)

\* mutant: the room-qualified channel lacks its closing "#"
emit_channel_open(self) ==
  IF Len(self.rooms) = 1
    THEN self.channel \o join(self.rooms, Hash)
    ELSE self.channel

\* mutant: every non-empty room list qualifies the channel
emit_channel_any(self) ==
  IF Len(self.rooms) >= 1
    THEN self.channel \o join(self.rooms, Hash) \o Hash
    ELSE self.channel

\* the channel emit publishes on
emit_channel(self) ==
  IF Len(self.rooms) = 1
    THEN self.channel \o join(self.rooms, Hash) \o Hash
    ELSE self.channel

\* mutant: only the rooms are cleared
emit_reset_rooms_only(self) == [self EXCEPT !.rooms = <<>>]

\* self.rooms = vec![]; self.flags = HashMap::new()
emit_reset(self) == [self EXCEPT !.rooms = <<>>, !.flags = {}]

\* a binding whose Emitter was moved out of it
Moved == [moved |-> TRUE]

\* What the binding the last method was called on holds after the call: to,
\* of, json, volatile, broadcast and emit all take self by value, so the
\* receiver is moved into the call and only the returned Emitter is left.
receiver_after == IF lastOp = "new" THEN NoEmitter ELSE Moved

(* ------------------- MessagePack encoding (rmp) ------------------------ *)

\* the big-endian bytes of n, w of them
RECURSIVE be_bytes(_, _)
be_bytes(n, w) ==
  IF w = 0 THEN <<>> ELSE be_bytes(n \div 256, w - 1) \o <<n % 256>>

\* mutant: every string gets the one-byte fixstr header
write_str_fix(s) == <<160 + Len(s)>> \o s

\* fixstr / str 8 / str 16 / str 32 header, then the bytes
write_str(s) ==
  (IF Len(s) < 32 THEN <<160 + Len(s)>>
   ELSE IF Len(s) < 256 THEN <<217, Len(s)>>
   ELSE IF Len(s) < 65536 THEN <<218>> \o be_bytes(Len(s), 2)
   ELSE <<219>> \o be_bytes(Len(s), 4)) \o s

\* fixarray / array 16 / array 32 header
write_array_len(n) ==
  IF n < 16 THEN <<144 + n>>
  ELSE IF n < 65536 THEN <<220>> \o be_bytes(n, 2)
  ELSE <<221>> \o be_bytes(n, 4)

\* fixmap / map 16 / map 32 header
write_map_len(n) ==
  IF n < 16 THEN <<128 + n>>
  ELSE IF n < 65536 THEN <<222>> \o be_bytes(n, 2)
  ELSE <<223>> \o be_bytes(n, 4)

\* an i32 in its shortest form (the forms an i32 in -32..255 takes)
write_sint(v) ==
  IF v >= 0 /\ v < 128 THEN <<v>>
  ELSE IF v < 0 /\ v >= -32 THEN <<256 + v>>
  ELSE <<204, v>>

write_bool(b) == IF b THEN <<195>> ELSE <<194>>

\* Vec<String>: array header, then each string
RECURSIVE write_strs(_)
write_strs(v) ==
  IF v = <<>> THEN <<>> ELSE write_str(v[1]) \o write_strs(Tail(v))

write_str_vec(v) == write_array_len(Len(v)) \o write_strs(v)

\* the orders a HashMap's iterator can yield the entries of flags in
iter_orders(flags) ==
  {o \in [1..Cardinality(flags) -> flags] : \A e \in flags : \E i \in DOMAIN o : o[i] = e}

RECURSIVE write_entries(_)
write_entries(order) ==
  IF order = <<>> THEN <<>>
  ELSE write_str(order[1][1]) \o write_bool(order[1][2]) \o write_entries(Tail(order))

\* HashMap<String, bool>: map header, then key and value of each entry as iterated
write_flags(order) == write_map_len(Len(order)) \o write_entries(order)

\* mutant: the Serializer lacks with_struct_map(), and writes a struct as the
\* array of its field values
write_packet_as_array(packet) ==
  write_array_len(3)
    \o write_sint(packet.type) \o write_str_vec(packet.data) \o write_str(packet.nsp)

\* Packet as a struct map: type, data, nsp in declaration order
write_packet(packet) ==
  write_map_len(3)
    \o write_str(TypeKey) \o write_sint(packet.type)
    \o write_str(DataKey) \o write_str_vec(packet.data)
    \o write_str(NspKey) \o write_str(packet.nsp)

\* Opts as a struct map: rooms, flags in declaration order
write_opts(opts, order) ==
  write_map_len(2)
    \o write_str(RoomsKey) \o write_str_vec(opts.rooms)
    \o write_str(FlagsKey) \o write_flags(order)

\* (uid, packet, opts) as a 3-element array
serialize(uid, packet, opts, order) ==
  write_array_len(3) \o write_str(uid) \o write_packet(packet) \o write_opts(opts, order)

(* ------------------ MessagePack decoding (rmp_serde) ------------------- *)

\* a failed read; a read that succeeds is [ok |-> TRUE, val |-> .., rest |-> ..]
Err == [ok |-> FALSE]
Ok(v, rest) == [ok |-> TRUE, val |-> v, rest |-> rest]

Drop(b, n) == SubSeq(b, n + 1, Len(b))

\* a length header: the fix form fix..fix+max, or tag16 followed by two bytes
read_len(b, fix, max, tag16) ==
  IF b = <<>> THEN Err
  ELSE IF b[1] >= fix /\ b[1] <= fix + max THEN Ok(b[1] - fix, Drop(b, 1))
  ELSE IF b[1] = tag16 /\ Len(b) >= 3 THEN Ok(b[2] * 256 + b[3], Drop(b, 3))
  ELSE Err

read_array_len(b) == read_len(b, 144, 15, 220)
read_map_len(b) == read_len(b, 128, 15, 222)

\* fixstr, str 8 or str 16
read_str(b) ==
  LET h == IF b # <<>> /\ b[1] = 217 /\ Len(b) >= 2
             THEN Ok(b[2], Drop(b, 2))
             ELSE read_len(b, 160, 31, 218)
  IN IF ~h.ok \/ Len(h.rest) < h.val THEN Err
     ELSE Ok(SubSeq(h.rest, 1, h.val), Drop(h.rest, h.val))

\* positive fixint, negative fixint or uint 8
read_int(b) ==
  IF b = <<>> THEN Err
  ELSE IF b[1] < 128 THEN Ok(b[1], Drop(b, 1))
  ELSE IF b[1] >= 224 THEN Ok(b[1] - 256, Drop(b, 1))
  ELSE IF b[1] = 204 /\ Len(b) >= 2 THEN Ok(b[2], Drop(b, 2))
  ELSE Err

read_bool(b) ==
  IF b = <<>> THEN Err
  ELSE IF b[1] = 195 THEN Ok(TRUE, Drop(b, 1))
  ELSE IF b[1] = 194 THEN Ok(FALSE, Drop(b, 1))
  ELSE Err

RECURSIVE read_strs(_, _)
read_strs(b, n) ==
  IF n = 0 THEN Ok(<<>>, b)
  ELSE LET s == read_str(b)
       IN IF ~s.ok THEN Err
          ELSE LET t == read_strs(s.rest, n - 1)
               IN IF ~t.ok THEN Err ELSE Ok(<<s.val>> \o t.val, t.rest)

\* Vec<String>
read_str_vec(b) ==
  LET h == read_array_len(b) IN IF ~h.ok THEN Err ELSE read_strs(h.rest, h.val)

\* n entries into a HashMap: a key read again replaces the entry read before
RECURSIVE read_entries(_, _)
read_entries(b, n) ==
  IF n = 0 THEN Ok({}, b)
  ELSE LET k == read_str(b)
       IN IF ~k.ok THEN Err
          ELSE LET v == read_bool(k.rest)
               IN IF ~v.ok THEN Err
                  ELSE LET t == read_entries(v.rest, n - 1)
                       IN IF ~t.ok THEN Err
                          ELSE Ok(t.val \cup
                                    (IF \E e \in t.val : e[1] = k.val
                                       THEN {} ELSE {<<k.val, v.val>>}),
                                  t.rest)

\* HashMap<String, bool>
read_flags(b) ==
  LET h == read_map_len(b) IN IF ~h.ok THEN Err ELSE read_entries(h.rest, h.val)

\* the value of the struct field named key, read with the field's own type
read_field(key, b) ==
  CASE key = TypeKey -> read_int(b)
    [] key = NspKey -> read_str(b)
    [] key \in {DataKey, RoomsKey} -> read_str_vec(b)
    [] key = FlagsKey -> read_flags(b)
    [] OTHER -> Err

\* n entries of a struct map into acc, a function from the field names read so
\* far to their values; only the names in fields are read (the encoder writes no
\* other), and one given twice is an error
RECURSIVE read_fields(_, _, _, _)
read_fields(b, n, fields, acc) ==
  IF n = 0 THEN Ok(acc, b)
  ELSE LET k == read_str(b)
       IN IF ~k.ok \/ k.val \notin fields \/ k.val \in DOMAIN acc THEN Err
          ELSE LET v == read_field(k.val, k.rest)
               IN IF ~v.ok THEN Err
                  ELSE read_fields(v.rest, n - 1, fields,
                                   [f \in DOMAIN acc \cup {k.val} |->
                                      IF f = k.val THEN v.val ELSE acc[f]])

\* a struct written as a map: every field must have been read
read_struct(b, fields) ==
  LET h == read_map_len(b)
  IN IF ~h.ok THEN Err
     ELSE LET r == read_fields(h.rest, h.val, fields, [f \in {} |-> 0])
          IN IF ~r.ok \/ DOMAIN r.val # fields THEN Err ELSE r

read_packet(b) ==
  LET r == read_struct(b, {TypeKey, DataKey, NspKey})
  IN IF ~r.ok THEN Err
     ELSE Ok([type |-> r.val[TypeKey], data |-> r.val[DataKey], nsp |-> r.val[NspKey]],
             r.rest)

read_opts(b) ==
  LET r == read_struct(b, {RoomsKey, FlagsKey})
  IN IF ~r.ok THEN Err
     ELSE Ok([rooms |-> r.val[RoomsKey], flags |-> r.val[FlagsKey]], r.rest)

\* decode_msg: the payload as (String, Packet, Opts); bytes after it are not read
decode_msg(payload) ==
  LET h == read_array_len(payload)
  IN IF ~h.ok \/ h.val # 3 THEN Err
     ELSE LET u == read_str(h.rest)
          IN IF ~u.ok THEN Err
             ELSE LET p == read_packet(u.rest)
                  IN IF ~p.ok THEN Err
                     ELSE LET o == read_opts(p.rest)
                          IN IF ~o.ok THEN Err
                             ELSE Ok(<<u.val, p.val, o.val>>, o.rest)

(* ------------------------------ actions -------------------------------- *)

Init ==
  /\ \E data \in NewInputs :
       /\ io = into_emitter(data)
       /\ newPrefix = IF data.key.some THEN data.key.val ELSE DefaultPrefix
  /\ published = <<>>
  /\ accepted = 0
  /\ outcome = "returned"
  /\ lastOp = "new"
  /\ pre = NoEmitter
  /\ message = <<>>
  /\ bound = DefaultNsp
  /\ given = <<>>
  /\ flagged = "none"

\* a call that publishes nothing and returns
NoPublish ==
  /\ published' = <<>>
  /\ outcome' = "returned"
  /\ UNCHANGED <<accepted, message, newPrefix>>

to(room) ==
  /\ io # Dropped
  /\ Len(io.rooms) < MaxRooms
  /\ io' = emitter_to(io, room)
  /\ pre' = io
  /\ lastOp' = "to"
  /\ given' = Append(given, room)
  /\ UNCHANGED <<bound, flagged>>
  /\ NoPublish

of(nsp) ==
  /\ io # Dropped
  /\ io' = emitter_of(io, nsp)
  /\ pre' = io
  /\ lastOp' = "of"
  /\ bound' = nsp
  /\ given' = <<>>
  /\ flagged' = "none"
  /\ NoPublish

json ==
  /\ io # Dropped
  /\ io' = emitter_json(io)
  /\ pre' = io
  /\ lastOp' = "json"
  /\ flagged' = "json"
  /\ UNCHANGED <<bound, given>>
  /\ NoPublish

volatile ==
  /\ io # Dropped
  /\ io' = emitter_volatile(io)
  /\ pre' = io
  /\ lastOp' = "volatile"
  /\ flagged' = "volatile"
  /\ UNCHANGED <<bound, given>>
  /\ NoPublish

broadcast ==
  /\ io # Dropped
  /\ io' = emitter_broadcast(io)
  /\ pre' = io
  /\ lastOp' = "broadcast"
  /\ flagged' = "broadcast"
  /\ UNCHANGED <<bound, given>>
  /\ NoPublish

\* what emit leaves in the caller's hands: self, reset, when publish returned
\* Ok; nothing when it returned Err, since unwrap() then panics
emit_return(self, ok) == IF ok THEN emit_reset(self) ELSE Dropped

\* how emit ends when publish returned ok
emit_outcome(ok) == IF ok THEN "returned" ELSE "panicked"

\* mutant: a publish that failed is tried once more before the unwrap()
emit_retry(msg) ==
  /\ io # Dropped
  /\ accepted < MaxPublishes
  /\ \E order \in iter_orders(io.flags), ok \in BOOLEAN :
       LET call == [channel |-> emit_channel(io),
                    msg |-> serialize(io.uid, make_packet(io, msg), make_opts(io), order),
                    ok |-> ok]
       IN /\ published' = IF ok THEN <<call>> ELSE <<call, call>>
          /\ accepted' = IF ok THEN accepted + 1 ELSE accepted
          /\ io' = emit_return(io, ok)
          /\ outcome' = emit_outcome(ok)
  /\ pre' = io
  /\ lastOp' = "emit"
  /\ message' = msg
  /\ given' = <<>>
  /\ flagged' = "none"
  /\ UNCHANGED <<newPrefix, bound>>

emit(msg) ==
  /\ io # Dropped
  /\ accepted < MaxPublishes
  /\ \E order \in iter_orders(io.flags), ok \in BOOLEAN :
       /\ published' =
            <<[channel |-> emit_channel(io),
               msg |-> serialize(io.uid, make_packet(io, msg), make_opts(io), order),
               ok |-> ok]>>
       /\ accepted' = IF ok THEN accepted + 1 ELSE accepted
       /\ io' = emit_return(io, ok)
       /\ outcome' = emit_outcome(ok)
  /\ pre' = io
  /\ lastOp' = "emit"
  /\ message' = msg
  /\ given' = <<>>
  /\ flagged' = "none"
  /\ UNCHANGED <<newPrefix, bound>>

Next ==
  \/ \E room \in RoomInputs : to(room)
  \/ \E nsp \in NspInputs : of(nsp)
  \/ json
  \/ volatile
  \/ broadcast
  \/ \E msg \in MessageInputs : emit(msg)

Spec == Init /\ [][Next]_vars

(* ----------------------- the encoder on its own ------------------------- *)

\* a 32-byte string ("a" 32 times), the shortest that needs a str 8 header
Long32 == [i \in 1..32 |-> 97]

\* the room lists of at most MaxRooms rooms
RoomLists == UNION {[1..n -> RoomInputs] : n \in 0..MaxRooms}

\* the HashMap<String, bool> values over the keys "json" and "volatile"
FlagMaps ==
  {m \in SUBSET ({JsonKey, VolatileKey} \X BOOLEAN) :
     \A e1, e2 \in m : e1[1] = e2[1] => e1 = e2}

\* Any (String, Packet, Opts) the types admit reaches val.serialize through an
\* Emitter whose fields hold it: CodecSpec starts emit from every such Emitter.
CodecInit ==
  /\ \E uid \in {Uid, EmptyStr}, nsp \in NspInputs, rooms \in RoomLists, flags \in FlagMaps :
       io = [create_emitter("redis", DefaultPrefix, nsp) EXCEPT
               !.uid = uid, !.rooms = rooms, !.flags = flags]
  /\ newPrefix = DefaultPrefix
  /\ bound = io.nsp
  /\ given = io.rooms
  /\ flagged = "none"
  /\ published = <<>>
  /\ accepted = 0
  /\ outcome = "returned"
  /\ lastOp = "new"
  /\ pre = NoEmitter
  /\ message = <<>>

CodecNext == \E msg \in MessageInputs \cup {<<Long32>>, <<Test, Long32>>} : emit(msg)

CodecSpec == CodecInit /\ [][CodecNext]_vars

TypeOK ==
  /\ accepted \in 0..MaxPublishes
  /\ Len(published) <= 1
  /\ io # Dropped => Len(io.rooms) <= MaxRooms

\* The envelope of a message emit just published decodes.
DecodeOK == \A i \in DOMAIN published : decode_msg(published[i].msg).ok

(* ------------------------------- claims -------------------------------- *)

\* the last call was an emit; Sent is the publish command it sent to redis
Emitted == lastOp = "emit" /\ Len(published) = 1
Sent == published[1]
\* the (uid, packet, opts) a subscriber decodes from it
Envelope == decode_msg(Sent.msg).val

\* the flag map the caller asked for by calling flag method f last
FlagMap(f) ==
  CASE f = "json" -> {<<JsonKey, TRUE>>}
    [] f = "volatile" -> {<<VolatileKey, TRUE>>}
    [] f = "broadcast" -> {<<BroadcastKey, TRUE>>}
    [] OTHER -> {}

\* C1: every emit that returns leaves the builder with no rooms and no flags,
\* and every emit carries in its options exactly the rooms and the flag that
\* were configured since the previous emit.
C1_EmitResets ==
  [][lastOp' = "emit" =>
       /\ io' # Dropped => io'.rooms = <<>> /\ io'.flags = {}
       /\ Len(published') = 1
       /\ decode_msg(published'[1].msg).ok
       /\ decode_msg(published'[1].msg).val[3].rooms = given
       /\ decode_msg(published'[1].msg).val[3].flags = FlagMap(flagged)]_vars

\* an emit returned on a builder that had rooms and a flag pending
C1_Witness ==
  /\ Emitted /\ io # Dropped
  /\ pre.rooms # <<>> /\ pre.flags # {}
  /\ io.rooms = <<>> /\ io.flags = {}

\* C2: an emit made while exactly one room r is pending publishes on p#n#r#.
C2_OneRoomChannel ==
  lastOp = "emit" /\ Len(pre.rooms) = 1 =>
    /\ Len(published) = 1
    /\ Sent.channel = newPrefix \o <<35>> \o bound \o <<35>> \o pre.rooms[1] \o <<35>>

\* "k#/custom#room1#" was published on
C2_Witness ==
  /\ Emitted /\ pre.rooms = <<Room1>>
  /\ Sent.channel = <<107, 35, 47, 99, 117, 115, 116, 111, 109, 35, 114, 111, 111, 109, 49, 35>>

\* "socket.io#/#"
SocketIoRoot == <<115, 111, 99, 107, 101, 116, 46, 105, 111, 35, 47, 35>>

\* C3: an emit made while no room is pending publishes on p#n#, which is
\* "socket.io#/#" for the default prefix and namespace.
C3_NoRoomChannel ==
  lastOp = "emit" /\ pre.rooms = <<>> =>
    /\ Len(published) = 1
    /\ Sent.channel = newPrefix \o <<35>> \o bound \o <<35>>
    /\ newPrefix = DefaultPrefix /\ bound = DefaultNsp => Sent.channel = SocketIoRoot

\* the first call on a default Emitter is an emit, on "socket.io#/#"
C3_Witness ==
  /\ Emitted /\ pre.rooms = <<>>
  /\ pre = into_emitter([kind |-> "client", key |-> None])
  /\ Sent.channel = SocketIoRoot

\* C4: an emit made while two or more rooms are pending publishes on p#n#, and
\* the options of its envelope hold the pending rooms in the order given.
C4_ManyRoomsChannel ==
  lastOp = "emit" /\ Len(pre.rooms) >= 2 =>
    /\ Len(published) = 1
    /\ Sent.channel = newPrefix \o <<35>> \o bound \o <<35>>
    /\ decode_msg(Sent.msg).ok
    /\ Envelope[3].rooms = pre.rooms

\* rooms "r2" then "room1" were pending, and were published in that order
C4_Witness ==
  /\ Emitted /\ pre.rooms = <<Room2, Room1>>
  /\ Envelope[3].rooms = <<Room2, Room1>>

\* C5: the Emitter of(n2) returns has no rooms and no flags, whatever was
\* pending on the receiver.
C5_OfStartsEmpty ==
  lastOp = "of" => io.rooms = <<>> /\ io.flags = {}

\* of was called on a builder with rooms and a flag pending
C5_Witness ==
  /\ lastOp = "of" /\ pre.rooms # <<>> /\ pre.flags # {}
  /\ io.rooms = <<>> /\ io.flags = {}

\* C6: of(n2) returns an Emitter with the receiver's prefix and namespace n2;
\* an emit with no rooms on it publishes on prefix#n2# a packet with nsp = n2.
C6_OfRebinds ==
  /\ lastOp = "of" => io.prefix = pre.prefix /\ io.prefix = newPrefix /\ io.nsp = bound
  /\ lastOp = "emit" /\ pre.rooms = <<>> =>
       /\ Len(published) = 1
       /\ Sent.channel = newPrefix \o <<35>> \o bound \o <<35>>
       /\ decode_msg(Sent.msg).ok
       /\ Envelope[2].nsp = bound

\* an Emitter with prefix "k" was rebound to "/custom" and then emitted
C6_Witness ==
  /\ Emitted /\ pre.rooms = <<>>
  /\ newPrefix = CustomKey /\ bound = CustomNsp
  /\ Envelope[2].nsp = CustomNsp

\* C7: a flag method leaves exactly its own entry, set to true, in the flag
\* map, and the flag map never has more than one entry.
C7_OneFlag ==
  io # Dropped =>
    /\ Cardinality(io.flags) <= 1
    /\ lastOp \in {"json", "volatile", "broadcast"} => io.flags = FlagMap(lastOp)

\* json() was called while volatile was set
C7_Witness ==
  /\ lastOp = "json" /\ pre.flags = {<<VolatileKey, TRUE>>}
  /\ io.flags = {<<JsonKey, TRUE>>}

\* C8: the pending rooms are the rooms given to to(), in call order, repeated
\* rooms included.
C8_ToAppends == io # Dropped => io.rooms = given

\* the same room was given twice
C8_Witness == lastOp = "to" /\ io.rooms = <<Room1, Room1>>

\* C9: the envelope of an emit is ("emitter", {type: 2, data: the arguments,
\* nsp: the namespace}, {rooms, flags as they were when emit was called}).
C9_Envelope ==
  lastOp = "emit" =>
    /\ Len(published) = 1
    /\ decode_msg(Sent.msg).ok
    /\ Envelope[1] = <<101, 109, 105, 116, 116, 101, 114>>
    /\ Envelope[2] = [type |-> 2, data |-> message, nsp |-> bound]
    /\ Envelope[3] = [rooms |-> pre.rooms, flags |-> pre.flags]

\* two arguments were emitted to a room with a flag set
C9_Witness ==
  /\ Emitted /\ message = <<Test1, Test2>>
  /\ pre.rooms # <<>> /\ pre.flags # {}
  /\ Envelope[2].data = <<Test1, Test2>>

\* C10: when publish fails, emit returns a PublishError to its caller and the
\* Emitter is left reset and usable.
C10_PublishErrorReturned ==
  lastOp = "emit" /\ Len(published) = 1 /\ ~Sent.ok =>
    /\ outcome = "PublishError"
    /\ io # Dropped
    /\ io.rooms = <<>> /\ io.flags = {}

\* C11: every emit sends exactly one publish command, the broker accepts one
\* more message when it succeeds and none when it fails, and no other method
\* sends a publish command.
C11_OnePublishPerEmit ==
  [][/\ lastOp' = "emit" =>
          /\ Len(published') = 1
          /\ accepted' = accepted + (IF published'[1].ok THEN 1 ELSE 0)
     /\ lastOp' # "emit" => published' = <<>> /\ accepted' = accepted]_vars

\* an emit failed after another had succeeded
C11_Witness ==
  /\ lastOp = "emit" /\ Len(published) = 1 /\ ~Sent.ok
  /\ accepted = 1 /\ outcome = "panicked"

\* C12: decoding what was encoded gives back the sender id, the packet and the
\* options that were encoded, and reads every byte.
C12_RoundTrip ==
  lastOp = "emit" =>
    /\ Len(published) = 1
    /\ decode_msg(Sent.msg) =
         Ok(<<pre.uid,
              [type |-> 2, data |-> message, nsp |-> pre.nsp],
              [rooms |-> pre.rooms, flags |-> pre.flags]>>, <<>>)

\* a 32-byte argument, two rooms and a two-entry flag map went through
C12_Witness ==
  /\ Emitted /\ message = <<Test, Long32>>
  /\ Len(pre.rooms) = 2 /\ Cardinality(pre.flags) = 2
  /\ decode_msg(Sent.msg).ok
  /\ Envelope[2].data = <<Test, Long32>>

\* C13: the published envelope is an array of exactly three elements: a
\* string, then a map with exactly the keys type, data, nsp, then a map with
\* exactly the keys rooms, flags; nothing follows it.
C13_EnvelopeShape ==
  lastOp = "emit" =>
    /\ Len(published) = 1
    /\ LET a == read_array_len(Sent.msg)
           u == read_str(a.rest)
           pm == read_map_len(u.rest)
           p == read_struct(u.rest, {TypeKey, DataKey, NspKey})
           om == read_map_len(p.rest)
           o == read_struct(p.rest, {RoomsKey, FlagsKey})
       IN /\ a.ok /\ a.val = 3
          /\ u.ok
          /\ pm.ok /\ pm.val = 3
          /\ p.ok /\ DOMAIN p.val = {<<116, 121, 112, 101>>, <<100, 97, 116, 97>>, <<110, 115, 112>>}
          /\ om.ok /\ om.val = 2
          /\ o.ok /\ DOMAIN o.val = {<<114, 111, 111, 109, 115>>, <<102, 108, 97, 103, 115>>}
          /\ o.rest = <<>>

\* an envelope with a room and the broadcast flag: its first byte is the
\* 3-element array header, and its packet starts with the 3-entry map header
C13_Witness ==
  /\ Emitted /\ pre.rooms = <<Room2>> /\ pre.flags = {<<BroadcastKey, TRUE>>}
  /\ Sent.msg[1] = 147
  /\ read_str(Drop(Sent.msg, 1)).rest[1] = 131

\* C14: the bytes an emit publishes are determined by the sender id, the
\* arguments, the namespace, the rooms and the flags: in whatever order the
\* flag map is iterated, encoding them gives the bytes that were published.
C14_Deterministic ==
  lastOp = "emit" =>
    /\ Len(published) = 1
    /\ \A order \in iter_orders(pre.flags) :
         Sent.msg =
           serialize(<<101, 109, 105, 116, 116, 101, 114>>,
                     [type |-> 2, data |-> message, nsp |-> bound],
                     [rooms |-> pre.rooms, flags |-> pre.flags], order)

\* two arguments were emitted in "/custom" to two rooms with the volatile flag
C14_Witness ==
  /\ Emitted /\ message = <<Test1, Test2>> /\ bound = CustomNsp
  /\ Len(pre.rooms) = 2 /\ pre.flags = {<<VolatileKey, TRUE>>}

\* C15: no Emitter has an empty prefix, and no emit publishes on a channel
\* that begins with "#".
C15_NonEmptyPrefix ==
  /\ io # Dropped => io.prefix # <<>>
  /\ Emitted => Sent.channel # <<>> /\ Sent.channel[1] # 35

\* C16 as claimed: after of, the receiver still holds the rooms and flags that
\* were pending on it.
C16_ReceiverKeepsPending ==
  lastOp = "of" =>
    /\ receiver_after # Moved
    /\ receiver_after.rooms = pre.rooms
    /\ receiver_after.flags = pre.flags

\* C16 as amended: of takes the receiver by value, so after it the receiver is
\* gone; the Emitter it returns has no rooms and no flags, and an emit made on
\* it next carries none of what was pending on the receiver.
C16_OfConsumesReceiver ==
  [][/\ lastOp' = "of" =>
          /\ receiver_after' = Moved
          /\ io'.rooms = <<>> /\ io'.flags = {}
     /\ lastOp = "of" /\ lastOp' = "emit" =>
          /\ Len(published') = 1
          /\ decode_msg(published'[1].msg).ok
          /\ decode_msg(published'[1].msg).val[3] = [rooms |-> <<>>, flags |-> {}]]_vars

\* of("/custom") was called on a builder with two rooms and the json flag pending
C16_Witness ==
  /\ lastOp = "of" /\ bound = CustomNsp
  /\ Len(pre.rooms) = 2 /\ pre.flags = {<<JsonKey, TRUE>>}
  /\ receiver_after = Moved
  /\ io.rooms = <<>> /\ io.flags = {}

\* C17: the prefix stays the one the Emitter was constructed with and the
\* sender id stays "emitter", in the Emitter and in what it publishes.
C17_PrefixAndUidFixed ==
  /\ io # Dropped => io.prefix = newPrefix /\ io.uid = <<101, 109, 105, 116, 116, 101, 114>>
  /\ lastOp # "new" => pre.prefix = newPrefix /\ pre.uid = <<101, 109, 105, 116, 116, 101, 114>>
  /\ Emitted =>
       /\ SubSeq(Sent.channel, 1, Len(newPrefix) + 1) = newPrefix \o <<35>>
       /\ decode_msg(Sent.msg).ok
       /\ Envelope[1] = <<101, 109, 105, 116, 116, 101, 114>>

\* an Emitter constructed with prefix "k" has been rebound and has emitted
C17_Witness ==
  /\ Emitted /\ io # Dropped /\ accepted >= 1
  /\ newPrefix = CustomKey /\ io.prefix = CustomKey
  /\ io.nsp = CustomNsp

\* C18: to changes only the rooms, a flag method only the flags, and emit
\* leaves the namespace alone; so the pending rooms and flag are those the
\* caller gave, in whatever order they were given.
C18_Frame ==
  /\ lastOp = "to" =>
       /\ io.flags = pre.flags /\ io.nsp = pre.nsp
       /\ io.prefix = pre.prefix /\ io.channel = pre.channel
  /\ lastOp \in {"json", "volatile", "broadcast"} =>
       /\ io.rooms = pre.rooms /\ io.nsp = pre.nsp
       /\ io.prefix = pre.prefix /\ io.channel = pre.channel
  /\ lastOp = "emit" /\ io # Dropped =>
       /\ io.nsp = pre.nsp
       /\ io.prefix = pre.prefix /\ io.channel = pre.channel
  /\ io # Dropped =>
       /\ io.rooms = given /\ io.flags = FlagMap(flagged)
       /\ io.nsp = bound

\* a room was given after a flag was set: both are pending
C18_Witness ==
  /\ lastOp = "to" /\ pre.flags = {<<BroadcastKey, TRUE>>}
  /\ io.flags = {<<BroadcastKey, TRUE>>} /\ io.rooms = <<Room1>>
  /\ io.nsp = CustomNsp

\* C19: the cached channel is prefix#nsp# for the Emitter's prefix and
\* namespace.
C19_ChannelCached ==
  io # Dropped => io.channel = io.prefix \o <<35>> \o io.nsp \o <<35>>

\* after of("/custom") and an emit, the channel of a "k" Emitter is "k#/custom#"
C19_Witness ==
  /\ lastOp = "emit" /\ io # Dropped
  /\ io.prefix = CustomKey /\ io.nsp = CustomNsp
  /\ io.channel = <<107, 35, 47, 99, 117, 115, 116, 111, 109, 35>>

====
